---------------------------- MODULE Spec2Model ----------------------------
(***************************************************************************)
(* Model of the playback jitter buffer of alvr/audio: the receive loop     *)
(* (receive_samples_loop) and the render pull (get_next_frame_batch) that  *)
(* share sample_buffer under its mutex.                                    *)
(* Spec follows the two as atomic operations, SpecE in the 48 kHz         *)
(* scenario, SpecLock statement by statement with the mutex; SpecStream    *)
(* follows the tasks and device threads of record_audio_loop and           *)
(* play_audio_loop of the cpal, PipeWire and android (oboe) backends, with *)
(* the capture data channel and recycle channel between them; SpecConv     *)
(* follows the s16 channel conversion of the cpal capture callback and     *)
(* SpecConvAny its f32 branch as well.                                     *)
(*                                                                         *)
(* A sample is kept symbolically, as the linear combination of decoded     *)
(* wire samples it was computed from: a set of terms <<id, num, den>>,     *)
(* meaning (num/den) * wire sample id, one term per id, num/den in lowest  *)
(* terms and never zero.  Wire sample ids count the stream's s16 samples   *)
(* in wire order from 1.  The empty set is the value 0.0 (silence).  The   *)
(* f32 arithmetic of the fades is modelled over the rationals: rounding is *)
(* not represented.                                                        *)
(***************************************************************************)
EXTENDS Integers, Sequences, FiniteSets, TLC

\* ------------------------------------------------------------------ bounds
MaxBatch == 2          \* batch_frames_count ranges over 1..MaxBatch
MaxAvg == 2            \* average_buffer_frames_count ranges over 1..MaxAvg
MaxPacketFrames == 4   \* a packet carries 0..MaxPacketFrames whole frames
MaxPackets == 3        \* packets received in one run
MaxPacketsE == 7       \* packets received in one run of the scenario
MaxLockedPackets == 2  \* packets received in one run of the stepwise loop
MaxDeviceChannels == 3 \* the capture device reports 1..MaxDeviceChannels channels
MaxQueued == 2         \* captured buffers waiting in the data channel
MaxEdge == 2           \* s16 inputs lie within MaxEdge of -32768, 0 and 32767
MaxConvFrames == 1     \* frames in one captured device buffer
MaxPasses == 2          \* conversions chained on one buffer
MaxDeviceFrames == 2    \* frames a PipeWire playback buffer has room for
MaxTicks == 3           \* calls of the capture callback in one run

\* the end-to-end scenarios' configuration (48 kHz, batch_ms = 10,
\* average_buffering_ms = 30), their packet sizes in frames, and the number of
\* loss-free packets they start with
E == [channels |-> 2, batch_frames |-> 480, avg_frames |-> 1440,
      packet_frames |-> 480, big_packet_frames |-> 1440, prime_packets |-> 5]

VARIABLES
    channels_count,               \* configuration, immutable
    batch_frames_count,
    average_buffer_frames_count,
    sample_buffer,                \* the shared VecDeque<f32>
    recovery_sample_buffer,       \* the receive loop's scratch Vec<f32>
    output_buffer,                \* the callback's output Vec<f32>
    received,                     \* packets received so far
    next_sample,                  \* id of the next wire sample
    rendered_high,                \* newest wire sample that reached the renderer
    last,                         \* the operation that led here, and its pre-state
    mutex,                        \* who holds sample_buffer's Mutex
    receive_pc,                   \* position of the receive loop, packet in hand
    callback_pc,                  \* position of the audio callback
    committed,                    \* sample_buffer as the last unlock left it (stepwise)
    backend,                      \* "cpal", "pipewire" or "oboe" (alxr, android)
    direction,                    \* "record" or "play"
    device_channels,              \* config.channels() of the capture device
    task_pc,                      \* position of the async record / play task
    task_result,                  \* how the task ended
    thread_pc,                    \* position of the device thread
    device_failed,                \* the device failed on the device thread
    shutdown,                     \* the shutdown channel, seen from the thread
    data_channel,                 \* the capture data channel's queue
    recycle_channel,              \* the recycle channel's queue of sent buffers
    joined,                       \* handle.join() has returned
    transport,                    \* what happened at the packet source / sink
    converter,                    \* the capture callback's s16 channel conversion
    capture_ticks,                \* calls of the capture callback so far
    buffer_bytes,                 \* what each captured Vec<u8> holds, by capture tick
    packets                       \* the packets given to send_buffer, in order

\* the stepwise model of the lock
lockVars == <<mutex, receive_pc, callback_pc, committed>>

\* the threads of record_audio_loop and play_audio_loop
\* the capture: the callback's ticks, the byte buffers, the packets sent
captureVars == <<capture_ticks, buffer_bytes, packets>>

lifeVars == <<backend, direction, device_channels, task_pc, task_result,
              thread_pc, device_failed, shutdown, data_channel,
              recycle_channel, joined, transport, converter, captureVars>>

vars == <<channels_count, batch_frames_count, average_buffer_frames_count,
          sample_buffer, recovery_sample_buffer, output_buffer, received,
          next_sample, rendered_high, last, lockVars, lifeVars>>

config == <<channels_count, batch_frames_count, average_buffer_frames_count>>

\* --------------------------------------------------------- sample algebra
RECURSIVE GCD(_, _)
GCD(a, b) == IF b = 0 THEN a ELSE GCD(b, a % b)

Term(id, n, d) == LET g == GCD(n, d) IN <<id, n \div g, d \div g>>

\* the f32 decoded from wire sample id (i16::from_ne_bytes(..).to_f32())
Raw(id) == {<<id, 1, 1>>}

Silence == {}

Ids(s) == {t[1] : t \in s}

\* (a/b) * (n/d) for a/b in lowest terms, reduced before multiplying
Times(id, a, b, n, d) ==
    LET g == GCD(n, d)
        n1 == n \div g
        d1 == d \div g
        g1 == GCD(a, d1)
        g2 == GCD(n1, b)
    IN <<id, (a \div g1) * (n1 \div g2), (b \div g2) * (d1 \div g1)>>

\* s * (n/d)
Scale(s, n, d) ==
    IF n = 0 THEN {} ELSE {Times(t[1], t[2], t[3], n, d) : t \in s}

Num(s, id) == IF \E t \in s : t[1] = id THEN (CHOOSE t \in s : t[1] = id)[2] ELSE 0
Den(s, id) == IF \E t \in s : t[1] = id THEN (CHOOSE t \in s : t[1] = id)[3] ELSE 1

\* s + t
Add(s, t) ==
    LET sum == {Term(id, Num(s, id) * Den(t, id) + Num(t, id) * Den(s, id),
                     Den(s, id) * Den(t, id)) : id \in Ids(s) \cup Ids(t)}
    IN {x \in sum : x[2] # 0}

MaxOf(S) == CHOOSE x \in S : \A y \in S : y <= x

Max(a, b) == IF a >= b THEN a ELSE b

Take(s, n) == SubSeq(s, 1, n)
Drop(s, n) == SubSeq(s, n + 1, Len(s))

\* packet.buffer.chunks_exact(2).map(|c| i16::from_ne_bytes(..).to_f32()) of a
\* packet whose first wire sample is `first` and that carries n samples
Decode(first, n) == [i \in 1..n |-> Raw(first + i - 1)]

\* ------------------------------------------------------------ render pull
\* (mutant) a buffer of exactly one batch is treated as an underrun
get_next_frame_batch_Strict(buf, ch, batch) ==
    IF Len(buf) \div ch > batch
    THEN [buf |-> Drop(buf, batch * ch), out |-> Take(buf, batch * ch)]
    ELSE [buf |-> buf, out |-> [i \in 1..(batch * ch) |-> Silence]]

\* get_next_frame_batch(sample_buffer, channels_count, batch_frames_count, out)
get_next_frame_batch(buf, ch, batch) ==
    IF Len(buf) \div ch >= batch
    THEN [buf |-> Drop(buf, batch * ch), out |-> Take(buf, batch * ch)]
    ELSE [buf |-> buf, out |-> [i \in 1..(batch * ch) |-> Silence]]

\* ---------------------------------------------------------- receive update
\* (mutant) a loss truncates the buffer but leaves the scratch as it is
PacketLoss_KeepsScratch(buf, rec, loss, ch, batch) ==
    IF loss
    THEN [buf |-> IF Len(buf) \div ch < batch THEN <<>> ELSE Take(buf, batch * ch),
          rec |-> rec]
    ELSE [buf |-> buf, rec |-> rec]

\* (mutant) a loss keeps the newest batch of the buffer, not the oldest
PacketLoss_KeepsTail(buf, rec, loss, ch, batch) ==
    IF loss
    THEN [buf |-> IF Len(buf) \div ch < batch THEN <<>>
                  ELSE Drop(buf, Len(buf) - batch * ch),
          rec |-> <<>>]
    ELSE [buf |-> buf, rec |-> rec]

\* (mutant) a loss clears the buffer whatever it holds: no anchor is kept
PacketLoss_AlwaysClears(buf, rec, loss, ch, batch) ==
    IF loss THEN [buf |-> <<>>, rec |-> <<>>] ELSE [buf |-> buf, rec |-> rec]

\* (mutant) a loss clears a short buffer but does not truncate a long one
PacketLoss_KeepsAll(buf, rec, loss, ch, batch) ==
    IF loss
    THEN [buf |-> IF Len(buf) \div ch < batch THEN <<>> ELSE buf, rec |-> <<>>]
    ELSE [buf |-> buf, rec |-> rec]

\* if packet.had_packet_loss { .. }: the buffer keeps at most one batch, the
\* scratch is cleared
PacketLoss(buf, rec, loss, ch, batch) ==
    IF loss
    THEN [buf |-> IF Len(buf) \div ch < batch THEN <<>> ELSE Take(buf, batch * ch),
          rec |-> <<>>]
    ELSE [buf |-> buf, rec |-> rec]

\* (mutant) the remainder is left in the buffer
DrainRemainder_KeepsRemainder(buf, rec, ch, batch) == [buf |-> buf, rec |-> rec]

\* (mutant) a buffer of exactly one batch is drained as well
DrainRemainder_DrainsFullBatch(buf, rec, ch, batch) ==
    IF Len(buf) \div ch <= batch
    THEN [buf |-> <<>>, rec |-> rec \o buf]
    ELSE [buf |-> buf, rec |-> rec]

\* a remainder below one batch is drained into the scratch
DrainRemainder(buf, rec, ch, batch) ==
    IF Len(buf) \div ch < batch
    THEN [buf |-> <<>>, rec |-> rec \o buf]
    ELSE [buf |-> buf, rec |-> rec]

\* an index f * channels_count + c with f < batch_frames_count falls outside
\* seq: the indexing panics
OutOfRange(seq, ch, batch) == batch * ch > Len(seq)

\* (mutant) the ramp starts one step up: frame 0 is not silenced
FadeIn_FromOne(rec, ch, batch) ==
    [i \in 1..Len(rec) |->
        IF (i - 1) \div ch < batch
        THEN Scale(rec[i], ((i - 1) \div ch) + 1, batch)
        ELSE rec[i]]

\* the fade-in loop over the first batch frames of the scratch
FadeIn(rec, ch, batch) ==
    [i \in 1..Len(rec) |->
        IF (i - 1) \div ch < batch
        THEN Scale(rec[i], (i - 1) \div ch, batch)
        ELSE rec[i]]

\* (mutant) the anchor is faded with the rising ramp of the fade-in
AddFadeOut_RisingRamp(rec, buf, ch, batch) ==
    [i \in 1..Len(rec) |->
        IF (i - 1) \div ch < batch
        THEN Add(rec[i], Scale(buf[i], (i - 1) \div ch, batch))
        ELSE rec[i]]

\* the fade-out of the anchor added onto the first batch frames of the scratch
AddFadeOut(rec, buf, ch, batch) ==
    [i \in 1..Len(rec) |->
        IF (i - 1) \div ch < batch
        THEN Add(rec[i], Scale(buf[i], batch - ((i - 1) \div ch), batch))
        ELSE rec[i]]

\* (mutant) the scratch is released only above the overflow limit
RecoverOrAppend_ReleaseLate(buf, rec, pkt, loss, ch, batch, avg) ==
    IF Len(buf) = 0 \/ loss
    THEN LET rec1 == rec \o pkt IN
         IF Len(rec1) \div ch > 2 * avg + batch
         THEN LET rec2 == FadeIn(rec1, ch, batch) IN
              IF loss /\ Len(buf) \div ch = batch
              THEN [buf |-> AddFadeOut(rec2, buf, ch, batch), rec |-> <<>>,
                    panic |-> OutOfRange(rec1, ch, batch) \/ OutOfRange(buf, ch, batch)]
              ELSE [buf |-> buf \o rec2, rec |-> <<>>,
                    panic |-> OutOfRange(rec1, ch, batch)]
         ELSE [buf |-> buf, rec |-> rec1, panic |-> FALSE]
    ELSE [buf |-> buf \o pkt, rec |-> rec, panic |-> FALSE]

\* (mutant) a scratch that stays below the threshold restarts from the packet
RecoverOrAppend_Restarts(buf, rec, pkt, loss, ch, batch, avg) ==
    IF Len(buf) = 0 \/ loss
    THEN LET rec1 == rec \o pkt IN
         IF Len(rec1) \div ch > avg + batch
         THEN LET rec2 == FadeIn(rec1, ch, batch) IN
              IF loss /\ Len(buf) \div ch = batch
              THEN [buf |-> AddFadeOut(rec2, buf, ch, batch), rec |-> <<>>,
                    panic |-> OutOfRange(rec1, ch, batch) \/ OutOfRange(buf, ch, batch)]
              ELSE [buf |-> buf \o rec2, rec |-> <<>>,
                    panic |-> OutOfRange(rec1, ch, batch)]
         ELSE [buf |-> buf, rec |-> pkt, panic |-> FALSE]
    ELSE [buf |-> buf \o pkt, rec |-> rec, panic |-> FALSE]

\* (mutant) the anchor stays in the buffer, ahead of the cross-faded scratch
RecoverOrAppend_KeepsAnchor(buf, rec, pkt, loss, ch, batch, avg) ==
    IF Len(buf) = 0 \/ loss
    THEN LET rec1 == rec \o pkt IN
         IF Len(rec1) \div ch > avg + batch
         THEN LET rec2 == FadeIn(rec1, ch, batch) IN
              IF loss /\ Len(buf) \div ch = batch
              THEN [buf |-> buf \o AddFadeOut(rec2, buf, ch, batch), rec |-> <<>>,
                    panic |-> OutOfRange(rec1, ch, batch) \/ OutOfRange(buf, ch, batch)]
              ELSE [buf |-> buf \o rec2, rec |-> <<>>,
                    panic |-> OutOfRange(rec1, ch, batch)]
         ELSE [buf |-> buf, rec |-> rec1, panic |-> FALSE]
    ELSE [buf |-> buf \o pkt, rec |-> rec, panic |-> FALSE]

\* (mutant) the scratch is released as soon as it reaches avg + batch frames
RecoverOrAppend_ReleaseAtThreshold(buf, rec, pkt, loss, ch, batch, avg) ==
    IF Len(buf) = 0 \/ loss
    THEN LET rec1 == rec \o pkt IN
         IF Len(rec1) \div ch >= avg + batch
         THEN LET rec2 == FadeIn(rec1, ch, batch) IN
              IF loss /\ Len(buf) \div ch = batch
              THEN [buf |-> AddFadeOut(rec2, buf, ch, batch), rec |-> <<>>,
                    panic |-> OutOfRange(rec1, ch, batch) \/ OutOfRange(buf, ch, batch)]
              ELSE [buf |-> buf \o rec2, rec |-> <<>>,
                    panic |-> OutOfRange(rec1, ch, batch)]
         ELSE [buf |-> buf, rec |-> rec1, panic |-> FALSE]
    ELSE [buf |-> buf \o pkt, rec |-> rec, panic |-> FALSE]

\* (mutant) the healthy path fades the packet in before appending it
RecoverOrAppend_FadesAppend(buf, rec, pkt, loss, ch, batch, avg) ==
    IF Len(buf) = 0 \/ loss
    THEN LET rec1 == rec \o pkt IN
         IF Len(rec1) \div ch > avg + batch
         THEN LET rec2 == FadeIn(rec1, ch, batch) IN
              IF loss /\ Len(buf) \div ch = batch
              THEN [buf |-> AddFadeOut(rec2, buf, ch, batch), rec |-> <<>>,
                    panic |-> OutOfRange(rec1, ch, batch) \/ OutOfRange(buf, ch, batch)]
              ELSE [buf |-> buf \o rec2, rec |-> <<>>,
                    panic |-> OutOfRange(rec1, ch, batch)]
         ELSE [buf |-> buf, rec |-> rec1, panic |-> FALSE]
    ELSE [buf |-> buf \o FadeIn(pkt, ch, batch), rec |-> rec, panic |-> FALSE]

\* if sample_buffer.len() == 0 || had_packet_loss { recovery } else { append }
RecoverOrAppend(buf, rec, pkt, loss, ch, batch, avg) ==
    IF Len(buf) = 0 \/ loss
    THEN LET rec1 == rec \o pkt IN
         IF Len(rec1) \div ch > avg + batch
         THEN LET rec2 == FadeIn(rec1, ch, batch) IN
              IF loss /\ Len(buf) \div ch = batch
              THEN [buf |-> AddFadeOut(rec2, buf, ch, batch), rec |-> <<>>,
                    panic |-> OutOfRange(rec1, ch, batch) \/ OutOfRange(buf, ch, batch)]
              ELSE [buf |-> buf \o rec2, rec |-> <<>>,
                    panic |-> OutOfRange(rec1, ch, batch)]
         ELSE [buf |-> buf, rec |-> rec1, panic |-> FALSE]
    ELSE [buf |-> buf \o pkt, rec |-> rec, panic |-> FALSE]

\* (mutant) the weights are exchanged: the old front fades in, the new out
TrimCrossFade_Swapped(buf, rec, ch, batch) ==
    [i \in 1..Len(buf) |->
        IF (i - 1) \div ch < batch
        THEN Add(Scale(buf[i], batch - ((i - 1) \div ch), batch),
                 Scale(rec[i], (i - 1) \div ch, batch))
        ELSE buf[i]]

\* the cross-fade rendered at the new front after an overflow trim
TrimCrossFade(buf, rec, ch, batch) ==
    [i \in 1..Len(buf) |->
        IF (i - 1) \div ch < batch
        THEN Add(Scale(buf[i], (i - 1) \div ch, batch),
                 Scale(rec[i], batch - ((i - 1) \div ch), batch))
        ELSE buf[i]]

\* (mutant) drain_count counts frames, not samples
OverflowTrim_DrainsFrames(buf, rec, ch, batch, avg) ==
    LET buffer_frames_size == Len(buf) \div ch IN
    IF buffer_frames_size > 2 * avg + batch
    THEN LET target_frames == Max(avg, batch)
             drain_count == buffer_frames_size - target_frames
             snapshot == Take(buf, batch * ch)
         IN [buf |-> TrimCrossFade(Drop(buf, drain_count), snapshot, ch, batch),
             rec |-> snapshot,
             panic |-> \/ target_frames > buffer_frames_size
                       \/ drain_count > Len(buf)
                       \/ OutOfRange(Drop(buf, drain_count), ch, batch)
                       \/ OutOfRange(snapshot, ch, batch)]
    ELSE [buf |-> buf, rec |-> rec, panic |-> FALSE]

\* (mutant) the trim target is avg_frames, without the max
OverflowTrim_TargetAvg(buf, rec, ch, batch, avg) ==
    LET buffer_frames_size == Len(buf) \div ch IN
    IF buffer_frames_size > 2 * avg + batch
    THEN LET target_frames == avg
             drain_count == (buffer_frames_size - target_frames) * ch
             snapshot == Take(buf, batch * ch)
         IN [buf |-> TrimCrossFade(Drop(buf, drain_count), snapshot, ch, batch),
             rec |-> snapshot,
             panic |-> \/ target_frames > buffer_frames_size
                       \/ drain_count > Len(buf)
                       \/ OutOfRange(Drop(buf, drain_count), ch, batch)
                       \/ OutOfRange(snapshot, ch, batch)]
    ELSE [buf |-> buf, rec |-> rec, panic |-> FALSE]

\* the overflow check that ends every iteration
OverflowTrim(buf, rec, ch, batch, avg) ==
    LET buffer_frames_size == Len(buf) \div ch IN
    IF buffer_frames_size > 2 * avg + batch
    THEN LET target_frames == Max(avg, batch)
             drain_count == (buffer_frames_size - target_frames) * ch
             snapshot == Take(buf, batch * ch)
         IN [buf |-> TrimCrossFade(Drop(buf, drain_count), snapshot, ch, batch),
             rec |-> snapshot,
             panic |-> \/ target_frames > buffer_frames_size
                       \/ drain_count > Len(buf)
                       \/ OutOfRange(Drop(buf, drain_count), ch, batch)
                       \/ OutOfRange(snapshot, ch, batch)]
    ELSE [buf |-> buf, rec |-> rec, panic |-> FALSE]

\* how many samples at the front of the scratch are the snapshot of an
\* overflow trim, after an update that found `held` of them: the trim stores
\* batch * ch samples, a loss flag or a release empties the scratch, anything
\* else appends behind them
SnapshotHeld(held, buffer_frames_size, loss, released, ch, batch, avg) ==
    IF buffer_frames_size > 2 * avg + batch THEN batch * ch
    ELSE IF loss \/ released THEN 0
    ELSE held

\* the recovery path is taken and the scratch, with the packet, passes the
\* release test
ScratchReleased(buf, rec, pkt, loss, ch, batch, avg) ==
    /\ Len(buf) = 0 \/ loss
    /\ Len(rec \o pkt) \div ch > avg + batch

\* one iteration of the loop of receive_samples_loop, from the lock to the
\* end of the body
ReceiveUpdate(buf, rec, pkt, loss, ch, batch, avg) ==
    LET a == PacketLoss(buf, rec, loss, ch, batch)
        b == DrainRemainder(a.buf, a.rec, ch, batch)
        c == RecoverOrAppend(b.buf, b.rec, pkt, loss, ch, batch, avg)
        d == OverflowTrim(c.buf, c.rec, ch, batch, avg)
    IN [buf |-> d.buf, rec |-> d.rec, buffer_frames_size |-> Len(c.buf) \div ch,
        panic |-> c.panic \/ d.panic, truncated |-> a.buf,
        released |-> ScratchReleased(b.buf, b.rec, pkt, loss, ch, batch, avg)]

\* ----------------------------------------------------------------- actions
AllIds(seq) == UNION {Ids(seq[i]) : i \in DOMAIN seq}

NoOp == [op |-> "init", had_packet_loss |-> FALSE, frames |-> 0,
         sample_buffer |-> <<>>, recovery_sample_buffer |-> <<>>, first |-> 1,
         buffer_frames_size |-> 0, rendered_high |-> 0, panic |-> FALSE,
         truncated |-> <<>>, loss_preceded |-> FALSE, loss_pending |-> FALSE,
         snapshot_before |-> 0, snapshot |-> 0]

\* the receive loop awaiting receiver.recv(), nothing in hand
Awaiting == [pc |-> "recv", frames |-> 0, had_packet_loss |-> FALSE,
             sample_buffer |-> <<>>, recovery_sample_buffer |-> <<>>,
             buffer_frames_size |-> 0, panic |-> FALSE, truncated |-> <<>>,
             released |-> FALSE]

\* nothing has happened at the packet source or sink
NoTransport == [failed |-> FALSE, source_failed |-> FALSE, handed |-> FALSE,
                in_hand |-> FALSE, data |-> 0]

\* nothing has been captured: every Vec<u8> is empty, no packet was sent
NoCapture ==
    /\ capture_ticks = 0
    /\ buffer_bytes = [b \in 1..(2 * MaxQueued + 2) |-> <<>>]
    /\ packets = <<>>

\* no captured buffer is being converted
NoConversion == [pc |-> "input", format |-> "I16", input_channels |-> 1, output_channels |-> 1, data |-> <<>>,
                 new_data |-> <<>>, original |-> <<>>, passes |-> <<>>]

\* no stream: record_audio_loop / play_audio_loop not called
StreamIdle ==
    /\ backend = "cpal"
    /\ direction = "play"
    /\ device_channels = 1
    /\ task_pc = "start"
    /\ task_result = "none"
    /\ thread_pc = "unspawned"
    /\ device_failed = FALSE
    /\ shutdown = "open"
    /\ data_channel = <<>>
    /\ recycle_channel = <<>>
    /\ joined = FALSE
    /\ transport = NoTransport
    /\ NoCapture
    /\ converter = NoConversion

InitJitter ==
    /\ mutex = "free"
    /\ receive_pc = Awaiting
    /\ callback_pc = "idle"
    /\ committed = <<>>
    /\ sample_buffer = <<>>
    /\ recovery_sample_buffer = <<>>
    /\ output_buffer = <<>>
    /\ received = 0
    /\ next_sample = 1
    /\ rendered_high = 0
    /\ last = NoOp

InitState == InitJitter /\ StreamIdle

Init ==
    /\ channels_count \in {1, 2}
    /\ batch_frames_count \in 1..MaxBatch
    /\ average_buffer_frames_count \in 1..MaxAvg
    /\ InitState

\* receiver.recv() yields a packet of `frames` whole frames; the update runs
\* under the lock
Receive(frames, loss) ==
    LET n == frames * channels_count
        r == ReceiveUpdate(sample_buffer, recovery_sample_buffer,
                           Decode(next_sample, n), loss, channels_count,
                           batch_frames_count, average_buffer_frames_count)
    IN /\ ~last.panic
       /\ sample_buffer' = r.buf
       /\ recovery_sample_buffer' = r.rec
       /\ received' = received + 1
       /\ next_sample' = next_sample + n
       /\ last' = [op |-> "receive", had_packet_loss |-> loss, frames |-> frames,
                   sample_buffer |-> sample_buffer,
                   recovery_sample_buffer |-> recovery_sample_buffer,
                   first |-> next_sample,
                   buffer_frames_size |-> r.buffer_frames_size,
                   rendered_high |-> rendered_high, panic |-> r.panic,
                   truncated |-> r.truncated,
                   loss_preceded |-> last.loss_pending,
                   loss_pending |-> ~r.released /\ (loss \/ last.loss_pending),
                   snapshot_before |-> last.snapshot,
                   snapshot |-> SnapshotHeld(last.snapshot, r.buffer_frames_size,
                                             loss, r.released, channels_count,
                                             batch_frames_count,
                                             average_buffer_frames_count)]
       /\ UNCHANGED <<lifeVars, lockVars, config, output_buffer, rendered_high>>

ReceivePacket ==
    /\ received < MaxPackets
    /\ \E frames \in 0..MaxPacketFrames, loss \in BOOLEAN : Receive(frames, loss)

\* one get_next_frame_batch on the shared buffer
Pull ==
    LET r == get_next_frame_batch(sample_buffer, channels_count, batch_frames_count)
    IN /\ sample_buffer' = r.buf
       /\ output_buffer' = r.out
       /\ rendered_high' = MaxOf({rendered_high} \cup AllIds(r.out))
       /\ last' = [op |-> "pull", had_packet_loss |-> FALSE, frames |-> 0,
                   sample_buffer |-> sample_buffer,
                   recovery_sample_buffer |-> recovery_sample_buffer,
                   first |-> next_sample,
                   buffer_frames_size |-> Len(sample_buffer) \div channels_count,
                   rendered_high |-> rendered_high, panic |-> last.panic,
                   truncated |-> <<>>, loss_preceded |-> last.loss_pending,
                   loss_pending |-> last.loss_pending,
                   snapshot_before |-> last.snapshot, snapshot |-> last.snapshot]
       /\ UNCHANGED <<lifeVars, config, recovery_sample_buffer, received, next_sample>>

\* the audio callback: one get_next_frame_batch under the lock
RenderPull == Pull /\ UNCHANGED lockVars

Next == ReceivePacket \/ RenderPull

Spec == Init /\ [][Next]_vars

\* ---------------------------------------------------------------- scenario
\* channels = 2, batch_frames = 480, avg_frames = 1440: E.prime_packets loss-free
\* packets of 480 frames, then packets of 480 frames (with or without loss) or
\* of 1440 frames (after a loss)
InitE ==
    /\ channels_count = E.channels
    /\ batch_frames_count = E.batch_frames
    /\ average_buffer_frames_count = E.avg_frames
    /\ InitState

ReceivePacketE ==
    /\ received < MaxPacketsE
    /\ \/ Receive(E.packet_frames, FALSE)
       \/ received >= E.prime_packets /\ Receive(E.packet_frames, TRUE)
       \/ received >= E.prime_packets /\ Receive(E.big_packet_frames, TRUE)

NextE == ReceivePacketE \/ RenderPull

SpecE == InitE /\ [][NextE]_vars

\* ----------------------------------------------------- the loop, stepwise
\* the receive loop statement by statement and the callback, each taking
\* sample_buffer's Mutex; packets are those of Spec

\* (mutant) the lock is granted whoever holds it
CanLock_Always(m) == TRUE

\* parking_lot::Mutex::lock returns once nobody holds the mutex
CanLock(m) == m = "free"

\* (mutant) the guard outlives the loop body: the mutex stays with its holder
drop_guard_Leaks(m) == m

\* the MutexGuard goes out of scope at the end of the block that took it
drop_guard(m) == "free"

\* let packet = receiver.recv().await?, the Ok case
RecvPacket ==
    /\ receive_pc.pc = "recv"
    /\ ~last.panic
    /\ received < MaxLockedPackets
    /\ \E frames \in 0..MaxPacketFrames, loss \in BOOLEAN :
          receive_pc' = [Awaiting EXCEPT !.pc = "lock", !.frames = frames,
                                         !.had_packet_loss = loss]
    /\ received' = received + 1
    /\ UNCHANGED <<lifeVars, config, sample_buffer, recovery_sample_buffer, output_buffer,
                   next_sample, rendered_high, last, mutex, callback_pc,
                   committed>>

\* let mut sample_buffer_ref = sample_buffer.lock()
LockReceive ==
    /\ receive_pc.pc = "lock"
    /\ CanLock(mutex)
    /\ mutex' = "receive"
    /\ receive_pc' = [receive_pc EXCEPT !.pc = "loss",
                          !.sample_buffer = sample_buffer,
                          !.recovery_sample_buffer = recovery_sample_buffer]
    /\ UNCHANGED <<lifeVars, config, sample_buffer, recovery_sample_buffer, output_buffer,
                   received, next_sample, rendered_high, last, callback_pc,
                   committed>>

\* if packet.had_packet_loss { .. }
StepLoss ==
    LET a == PacketLoss(sample_buffer, recovery_sample_buffer,
                        receive_pc.had_packet_loss, channels_count,
                        batch_frames_count)
    IN /\ receive_pc.pc = "loss"
       /\ sample_buffer' = a.buf
       /\ recovery_sample_buffer' = a.rec
       /\ receive_pc' = [receive_pc EXCEPT !.pc = "drain", !.truncated = a.buf]
       /\ UNCHANGED <<lifeVars, config, output_buffer, received, next_sample,
                      rendered_high, last, mutex, callback_pc, committed>>

\* if sample_buffer_ref.len() / channels_count < batch_frames_count { .. }
StepDrain ==
    LET b == DrainRemainder(sample_buffer, recovery_sample_buffer,
                            channels_count, batch_frames_count)
    IN /\ receive_pc.pc = "drain"
       /\ sample_buffer' = b.buf
       /\ recovery_sample_buffer' = b.rec
       /\ receive_pc' = [receive_pc EXCEPT !.pc = "recover"]
       /\ UNCHANGED <<lifeVars, config, output_buffer, received, next_sample,
                      rendered_high, last, mutex, callback_pc, committed>>

\* if sample_buffer_ref.len() == 0 || packet.had_packet_loss { .. } else { .. }
StepRecover ==
    LET c == RecoverOrAppend(sample_buffer, recovery_sample_buffer,
                             Decode(next_sample, receive_pc.frames * channels_count),
                             receive_pc.had_packet_loss, channels_count,
                             batch_frames_count, average_buffer_frames_count)
    IN /\ receive_pc.pc = "recover"
       /\ sample_buffer' = c.buf
       /\ recovery_sample_buffer' = c.rec
       /\ receive_pc' = [receive_pc EXCEPT !.pc = "trim",
                             !.buffer_frames_size = Len(c.buf) \div channels_count,
                             !.panic = c.panic,
                             !.released = ScratchReleased(sample_buffer,
                                  recovery_sample_buffer,
                                  Decode(next_sample, receive_pc.frames * channels_count),
                                  receive_pc.had_packet_loss, channels_count,
                                  batch_frames_count, average_buffer_frames_count)]
       /\ UNCHANGED <<lifeVars, config, output_buffer, received, next_sample,
                      rendered_high, last, mutex, callback_pc, committed>>

\* the overflow check, then the end of the loop body, where the guard drops
StepTrim ==
    LET d == OverflowTrim(sample_buffer, recovery_sample_buffer, channels_count,
                          batch_frames_count, average_buffer_frames_count)
    IN /\ receive_pc.pc = "trim"
       /\ sample_buffer' = d.buf
       /\ recovery_sample_buffer' = d.rec
       /\ committed' = d.buf
       /\ mutex' = drop_guard(mutex)
       /\ receive_pc' = Awaiting
       /\ next_sample' = next_sample + receive_pc.frames * channels_count
       /\ last' = [op |-> "receive",
                   had_packet_loss |-> receive_pc.had_packet_loss,
                   frames |-> receive_pc.frames,
                   sample_buffer |-> receive_pc.sample_buffer,
                   recovery_sample_buffer |-> receive_pc.recovery_sample_buffer,
                   first |-> next_sample,
                   buffer_frames_size |-> receive_pc.buffer_frames_size,
                   rendered_high |-> rendered_high,
                   panic |-> receive_pc.panic \/ d.panic,
                   truncated |-> receive_pc.truncated,
                   loss_preceded |-> last.loss_pending,
                   loss_pending |-> ~receive_pc.released
                                    /\ (receive_pc.had_packet_loss \/ last.loss_pending),
                   snapshot_before |-> last.snapshot,
                   snapshot |-> SnapshotHeld(last.snapshot,
                                             receive_pc.buffer_frames_size,
                                             receive_pc.had_packet_loss,
                                             receive_pc.released, channels_count,
                                             batch_frames_count,
                                             average_buffer_frames_count)]
       /\ UNCHANGED <<lifeVars, config, output_buffer, received, rendered_high,
                      callback_pc>>

\* the callback's sample_buffer.lock()
LockCallback ==
    /\ callback_pc = "idle"
    /\ CanLock(mutex)
    /\ mutex' = "callback"
    /\ callback_pc' = "pull"
    /\ UNCHANGED <<lifeVars, config, sample_buffer, recovery_sample_buffer, output_buffer,
                   received, next_sample, rendered_high, last, receive_pc,
                   committed>>

\* get_next_frame_batch under the callback's guard, which drops after the call
CallbackPull ==
    /\ callback_pc = "pull"
    /\ Pull
    /\ committed' = sample_buffer'
    /\ mutex' = drop_guard(mutex)
    /\ callback_pc' = "idle"
    /\ UNCHANGED receive_pc

NextLock ==
    \/ RecvPacket
    \/ LockReceive
    \/ StepLoss
    \/ StepDrain
    \/ StepRecover
    \/ StepTrim
    \/ LockCallback
    \/ CallbackPull

SpecLock == Init /\ [][NextLock]_vars

\* ------------------------------------------------- the streams' threads
\* record_audio_loop and play_audio_loop of the three backends: the async task,
\* the device thread it spawns, the shutdown channel between them, the capture
\* data channel and the playback mutex.  The jitter buffer's contents are not
\* followed here: a receive update is a lock, an update and an unlock.
Backends == {"cpal", "pipewire", "oboe"}

\* what the spawned thread and the task leave alone
jitterVars == <<config, sample_buffer, recovery_sample_buffer, output_buffer,
                received, next_sample, rendered_high, last, receive_pc,
                committed>>

stream == <<backend, direction, device_channels, converter, captureVars>>

InitStream ==
    /\ channels_count = 1
    /\ batch_frames_count \in 1..MaxBatch
    /\ average_buffer_frames_count = 1
    /\ InitJitter
    /\ backend \in Backends
    /\ direction \in {"record", "play"}
    /\ device_channels \in 1..MaxDeviceChannels
    /\ task_pc = "start"
    /\ task_result = "none"
    /\ thread_pc = "unspawned"
    /\ device_failed = FALSE
    /\ shutdown = "open"
    /\ data_channel = <<>>
    /\ recycle_channel = <<>>
    /\ joined = FALSE
    /\ transport = NoTransport
    /\ NoCapture
    /\ converter = NoConversion

\* (mutant) surround devices are accepted
ConfigRefused_Never(b, ch) == FALSE

\* if config.channels() > 2 { return fmt_e!(..) }, of the cpal backend only
ConfigRefused(b, ch) == b = "cpal" /\ ch > 2

\* (mutant) the guard is forgotten: the thread's end of the channel sees nothing
DropShutdown_Forgets(b) == "open"

\* the task's end of the shutdown channel is dropped: PipeWire's ShutdownSender
\* sends Shutdown from its Drop, the other backends' _shutdown_notifier closes
\* the channel
DropShutdown(b) == IF b = "pipewire" THEN "signalled" ELSE "closed"

\* PipeWire joins the device thread on the paths that reach the end of the
\* function; the other backends never keep the JoinHandle
AfterLoop(b) == IF b = "pipewire" THEN "join" ELSE "done"

\* (mutant) the error of the packet source is swallowed and the loop goes on
AfterSourceError_Ignored(b) == "recv"

\* receiver.recv().await? of receive_samples_loop: the error leaves the loop,
\* and the backend's play_audio_loop after it
AfterSourceError(b) == AfterLoop(b)

\* what the data channel carries: Err(e) of the device thread, or Ok(new_data)
\* with the byte buffer new_data, named by a positive number
Failure == [result |-> "err", buffer |-> 0]

Captured(new_data) == [result |-> "ok", buffer |-> new_data]

\* the buffers that exist: queued for the task, in the task's hand, or waiting
\* in the recycle channel
LiveBuffers ==
    {data_channel[i].buffer : i \in 1..Len(data_channel)}
    \cup {recycle_channel[i] : i \in 1..Len(recycle_channel)}
    \cup {transport.data}

\* Vec::default(), Vec::with_capacity(size): a buffer that did not exist
FreshBuffer == CHOOSE b \in 1..(2 * MaxQueued + 2) :
                  b \notin LiveBuffers /\ \A c \in 1..(b - 1) : c \in LiveBuffers

\* (mutant) the callback reads the head of the recycle channel and leaves it
PopRecycle_Keeps(ring) == ring

\* recycle_receiver.try_recv() takes the buffer out of the channel
PopRecycle(ring) == Tail(ring)

\* record_audio_loop up to the spawn of the device thread
StartRecord ==
    /\ task_pc = "start"
    /\ direction = "record"
    /\ \/ /\ backend \in {"cpal", "oboe"}
          /\ task_pc' = "done"
          /\ task_result' = "err"
          /\ UNCHANGED thread_pc
       \/ /\ ConfigRefused(backend, device_channels)
          /\ task_pc' = "done"
          /\ task_result' = "err"
          /\ UNCHANGED thread_pc
       \/ /\ ~ConfigRefused(backend, device_channels)
          /\ thread_pc' = "init"
          /\ task_pc' = "recv"
          /\ UNCHANGED task_result
    /\ UNCHANGED <<jitterVars, stream, recycle_channel, mutex, callback_pc, device_failed,
                   shutdown, data_channel, joined, transport>>

\* play_audio_loop up to the call of receive_samples_loop
StartPlay ==
    /\ task_pc = "start"
    /\ direction = "play"
    /\ thread_pc' = "init"
    /\ task_pc' = "recv"
    /\ UNCHANGED <<jitterVars, stream, recycle_channel, mutex, callback_pc, task_result,
                   device_failed, shutdown, data_channel, joined, transport>>

\* the device thread opens and starts its stream; only cpal's capture thread
\* reports a failure, over the data channel
ThreadInit ==
    /\ thread_pc = "init"
    /\ \/ /\ thread_pc' = "running"
          /\ UNCHANGED <<device_failed, data_channel>>
       \/ /\ thread_pc' = "exited"
          /\ device_failed' = TRUE
          /\ data_channel' = IF backend = "cpal" /\ direction = "record"
                             THEN Append(data_channel, Failure)
                             ELSE data_channel
    /\ UNCHANGED <<jitterVars, stream, recycle_channel, mutex, callback_pc, task_pc, task_result,
                   shutdown, joined, transport>>

\* (mutant) the recycled buffer is refilled without being cleared
Fill_NoClear(held, tick) == Append(held, tick)

\* new_data.clear(), then the tick's bytes are written: the buffer holds the
\* bytes of that tick alone
Fill(held, tick) == <<tick>>

\* the capture callback takes the buffer at the head of the recycle channel,
\* or a new one when try_recv finds none (PipeWire allocates every time),
\* clears it, fills it with the tick's bytes and sends it over the data channel
CaptureCallback ==
    /\ thread_pc = "running"
    /\ direction = "record"
    /\ Len(data_channel) < MaxQueued
    /\ capture_ticks < MaxTicks
    /\ LET recycled == backend # "pipewire" /\ Len(recycle_channel) > 0
           new_data == IF recycled THEN Head(recycle_channel) ELSE FreshBuffer
           held == IF recycled THEN buffer_bytes[new_data] ELSE <<>>
       IN /\ recycle_channel' = IF recycled THEN PopRecycle(recycle_channel)
                                 ELSE recycle_channel
          /\ buffer_bytes' = [buffer_bytes EXCEPT
                                 ![new_data] = Fill(held, capture_ticks + 1)]
          /\ data_channel' = Append(data_channel, Captured(new_data))
    /\ capture_ticks' = capture_ticks + 1
    /\ UNCHANGED <<jitterVars, backend, direction, device_channels, converter,
                   packets, mutex, callback_pc, task_pc, task_result,
                   thread_pc, device_failed, shutdown, joined, transport>>

\* the device reports an error on a running stream: cpal's capture error
\* callback sends it over the data channel, PipeWire's state_changed quits the
\* main loop; the other streams have no handler for it
DeviceError ==
    /\ thread_pc = "running"
    /\ ~device_failed
    /\ device_failed' = TRUE
    /\ \/ /\ backend = "cpal"
          /\ direction = "record"
          /\ data_channel' = Append(data_channel, Failure)
          /\ UNCHANGED thread_pc
       \/ /\ backend = "pipewire"
          /\ callback_pc = "idle"
          /\ thread_pc' = "exited"
          /\ UNCHANGED data_channel
    /\ UNCHANGED <<jitterVars, stream, recycle_channel, mutex, callback_pc, task_pc, task_result,
                   shutdown, joined, transport>>

\* the playback callback takes the lock
PlaybackLock ==
    /\ thread_pc = "running"
    /\ direction = "play"
    /\ callback_pc = "idle"
    /\ CanLock(mutex)
    /\ mutex' = "callback"
    /\ callback_pc' = "pull"
    /\ UNCHANGED <<jitterVars, lifeVars>>

\* the frames one playback callback asks of get_next_frame_batch: PipeWire
\* asks for batch_frames_count.min(max_frames), max_frames being what the
\* dequeued buffer holds; cpal and oboe ask for batch_frames_count
FramesToWrite(b, batch, max_frames) ==
    IF b = "pipewire" THEN (IF batch < max_frames THEN batch ELSE max_frames)
    ELSE batch

\* the playback callback pulls from the buffer into its output; its guard
\* drops.  (PipeWire returns before the pull when max_frames is 0.)
PlaybackUnlock ==
    /\ direction = "play"
    /\ thread_pc # "unspawned"
    /\ callback_pc = "pull"
    /\ \E max_frames \in 1..MaxDeviceFrames :
          LET r == get_next_frame_batch(sample_buffer, channels_count,
                      FramesToWrite(backend, batch_frames_count, max_frames))
          IN /\ sample_buffer' = r.buf
             /\ output_buffer' = r.out
    /\ mutex' = "free"
    /\ callback_pc' = "idle"
    /\ UNCHANGED <<config, recovery_sample_buffer, received, next_sample,
                   rendered_high, last, receive_pc, committed, lifeVars>>

\* shutdown_receiver.recv() returns, or the main loop receives Shutdown and
\* quits: the thread drops its stream and ends
ThreadShutdown ==
    /\ thread_pc = "running"
    /\ shutdown # "open"
    /\ callback_pc = "idle"
    /\ thread_pc' = "exited"
    /\ UNCHANGED <<jitterVars, stream, recycle_channel, mutex, callback_pc, task_pc, task_result,
                   device_failed, shutdown, data_channel, joined, transport>>

\* receiver.recv().await? of the receive loop
TaskRecv ==
    /\ task_pc = "recv"
    /\ direction = "play"
    /\ \/ /\ transport' = [transport EXCEPT !.in_hand = TRUE]
          /\ task_pc' = "lock"
          /\ UNCHANGED <<task_result, shutdown>>
       \/ /\ transport' = [transport EXCEPT !.source_failed = TRUE]
          /\ task_result' = "err"
          /\ task_pc' = AfterSourceError(backend)
          /\ shutdown' = DropShutdown(backend)
    /\ UNCHANGED <<jitterVars, stream, recycle_channel, mutex, callback_pc, thread_pc,
                   device_failed, data_channel, joined>>

\* sample_buffer.lock() of the receive loop
TaskLock ==
    /\ task_pc = "lock"
    /\ CanLock(mutex)
    /\ mutex' = "receive"
    /\ task_pc' = "update"
    /\ UNCHANGED <<jitterVars, stream, recycle_channel, callback_pc, task_result, thread_pc,
                   device_failed, shutdown, data_channel, joined, transport>>

\* the receive update, to the end of the loop body
TaskUpdate ==
    /\ task_pc = "update"
    /\ mutex' = "free"
    /\ transport' = [transport EXCEPT !.in_hand = FALSE]
    /\ task_pc' = "recv"
    /\ UNCHANGED <<jitterVars, stream, recycle_channel, callback_pc, task_result, thread_pc,
                   device_failed, shutdown, data_channel, joined>>

\* data_receiver.recv().await of the capture loop, and new_buffer
TaskRecvData ==
    /\ task_pc = "recv"
    /\ direction = "record"
    /\ \/ /\ Len(data_channel) > 0
          /\ Head(data_channel).result = "err"
          /\ data_channel' = Tail(data_channel)
          /\ task_result' = "err"
          /\ task_pc' = "done"
          /\ shutdown' = DropShutdown(backend)
          /\ UNCHANGED transport
       \/ /\ Len(data_channel) > 0
          /\ Head(data_channel).result = "ok"
          /\ data_channel' = Tail(data_channel)
          /\ \/ /\ transport' = [transport EXCEPT !.failed = TRUE]
                /\ task_result' = "err"
                /\ task_pc' = "done"
                /\ shutdown' = DropShutdown(backend)
             \/ /\ transport' = [transport EXCEPT !.data = Head(data_channel).buffer]
                /\ task_pc' = "send"
                /\ UNCHANGED <<task_result, shutdown>>
       \/ /\ Len(data_channel) = 0
          /\ thread_pc = "exited"
          /\ task_result' = "ok"
          /\ task_pc' = AfterLoop(backend)
          /\ shutdown' = DropShutdown(backend)
          /\ UNCHANGED <<data_channel, transport>>
    /\ UNCHANGED <<jitterVars, stream, recycle_channel, mutex, callback_pc, thread_pc,
                   device_failed, joined>>

\* buffer.get_mut().extend(&data) copies the captured bytes into the packet;
\* sender.send_buffer(buffer).await.ok(): the result is discarded; then
\* recycle_sender.send(data).ok() returns the bytes to the callback, unless the
\* device thread has dropped its end (PipeWire has no recycle channel), and
\* the loop goes on
TaskSend ==
    /\ task_pc = "send"
    /\ \E sent \in BOOLEAN :
          transport' = [transport EXCEPT !.handed = TRUE,
                                         !.failed = @ \/ ~sent,
                                         !.data = 0]
    /\ packets' = Append(packets, buffer_bytes[transport.data])
    /\ recycle_channel' = IF backend # "pipewire" /\ thread_pc # "exited"
                          THEN Append(recycle_channel, transport.data)
                          ELSE recycle_channel
    /\ task_pc' = "recv"
    /\ UNCHANGED <<jitterVars, backend, direction, device_channels, converter,
                   capture_ticks, buffer_bytes, mutex, callback_pc, task_result,
                   thread_pc, device_failed, shutdown, data_channel, joined>>

\* handle.join() of the PipeWire backend
TaskJoin ==
    /\ task_pc = "join"
    /\ thread_pc = "exited"
    /\ joined' = TRUE
    /\ task_pc' = "done"
    /\ UNCHANGED <<jitterVars, stream, recycle_channel, mutex, callback_pc, task_result,
                   thread_pc, device_failed, shutdown, data_channel, transport>>

\* the future is dropped at one of its awaits: its locals drop, the JoinHandle
\* among them
Cancel ==
    /\ task_pc \in {"recv", "send"}
    /\ task_pc' = "done"
    /\ task_result' = "cancelled"
    /\ shutdown' = DropShutdown(backend)
    /\ transport' = [transport EXCEPT !.data = 0]
    /\ UNCHANGED <<jitterVars, stream, recycle_channel, mutex, callback_pc, thread_pc,
                   device_failed, data_channel, joined>>

NextStream ==
    \/ StartRecord
    \/ StartPlay
    \/ ThreadInit
    \/ CaptureCallback
    \/ DeviceError
    \/ PlaybackLock
    \/ PlaybackUnlock
    \/ ThreadShutdown
    \/ TaskRecv
    \/ TaskLock
    \/ TaskUpdate
    \/ TaskRecvData
    \/ TaskSend
    \/ TaskJoin
    \/ Cancel

SpecStream == InitStream /\ [][NextStream]_vars

\* the device thread and the callback are scheduled, and a blocking join
\* returns once the thread has ended; nothing is assumed of the task's awaits
FairStream ==
    /\ SpecStream
    /\ WF_vars(ThreadInit)
    /\ WF_vars(PlaybackUnlock)
    /\ SF_vars(ThreadShutdown)
    /\ WF_vars(TaskJoin)

\* FairStream with a packet source that keeps answering, with a packet or with
\* an error, and a receive loop that is scheduled
FairSource ==
    /\ FairStream
    /\ WF_vars(TaskRecv)
    /\ WF_vars(TaskLock)
    /\ WF_vars(TaskUpdate)

\* ------------------------------------------------ the capture converter
\* the s16 branch of the cpal capture callback, on buffers of whole frames
\* whose samples lie at the edges and at the middle of the i16 range.  Bytes
\* are 0..255; a sample is two bytes in native (little-endian) order.

\* x as i16, of an i32 x
AsI16(x) == LET u == x % 65536 IN IF u >= 32768 THEN u - 65536 ELSE u

\* i16::to_ne_bytes
to_ne_bytes(x) == LET u == x % 65536 IN <<u % 256, u \div 256>>

\* i16::from_ne_bytes
from_ne_bytes(b) == AsI16(b[1] + 256 * b[2])

\* Rust's integer division, which truncates towards zero
DivTrunc(x, d) == IF x >= 0 THEN x \div d ELSE -((-x) \div d)

\* the samples of a byte buffer, as chunks_exact(2) yields them
Samples(bytes) ==
    [i \in 1..(Len(bytes) \div 2) |-> from_ne_bytes(<<bytes[2 * i - 1], bytes[2 * i]>>)]

\* the bytes of a sequence of samples
Encode(samples) ==
    [j \in 1..(2 * Len(samples)) |-> to_ne_bytes(samples[(j + 1) \div 2])[2 - (j % 2)]]

\* (mutant) the second channel is left silent
MonoToStereoS16_PadsSilence(data) ==
    [j \in 1..(4 * (Len(data) \div 2)) |->
        IF ((j - 1) % 4) < 2 THEN data[2 * ((j - 1) \div 4) + ((j - 1) % 2) + 1] ELSE 0]

\* input_channels == 1 && output_channels == 2: each chunk of 2 bytes twice
MonoToStereoS16(data) ==
    [j \in 1..(4 * (Len(data) \div 2)) |->
        data[2 * ((j - 1) \div 4) + ((j - 1) % 2) + 1]]

\* (mutant) the sum is narrowed to 16 bits before it is halved
Mixed_Narrow(l, r) == AsI16(DivTrunc(AsI16(l + r), 2))

\* ((l as i32 + r as i32) / 2) as i16; the sum of two i16 fits an i32
Mixed(l, r) == AsI16(DivTrunc(l + r, 2))

\* input_channels == 2 && output_channels == 1: one sample per chunk of 4 bytes
StereoToMonoS16(data) ==
    [j \in 1..(2 * (Len(data) \div 4)) |->
        LET k == (j - 1) \div 2
            l == from_ne_bytes(<<data[4 * k + 1], data[4 * k + 2]>>)
            r == from_ne_bytes(<<data[4 * k + 3], data[4 * k + 4]>>)
        IN to_ne_bytes(Mixed(l, r))[((j - 1) % 2) + 1]]

\* (mutant) the copy swaps the two bytes of every sample
SameChannelsS16_Swapped(data) ==
    [j \in 1..Len(data) |-> IF j % 2 = 1 /\ j < Len(data) THEN data[j + 1]
                            ELSE IF j % 2 = 0 THEN data[j - 1] ELSE data[j]]

\* new_data.extend_from_slice(data_bytes)
SameChannelsS16(data) == [j \in 1..Len(data) |-> data[j]]

\* the s16 branch, after new_data.clear()
ConvertS16(data, input_channels, output_channels) ==
    IF input_channels = 1 /\ output_channels = 2 THEN MonoToStereoS16(data)
    ELSE IF input_channels = 2 /\ output_channels = 1 THEN StereoToMonoS16(data)
    ELSE SameChannelsS16(data)

\* An f32 device sample whose value is x / 32768, x an integer, is kept as x
\* and written as the four bytes of x in two's complement: the IEEE bit
\* pattern is not represented.  Sums and halves of such values are exact in
\* f32 within the range used here.
f32_to_ne_bytes(x) ==
    LET u == x % 16777216
    IN <<u % 256, (u \div 256) % 256, u \div 65536, IF x < 0 THEN 255 ELSE 0>>

\* f32::from_ne_bytes
f32_from_ne_bytes(b) ==
    LET u == b[1] + 256 * b[2] + 65536 * b[3]
    IN IF b[4] = 255 THEN u - 16777216 ELSE u

\* f32 .to_sample::<i16>(): the value times 32768, cast with saturation
to_sample_i16(x) == IF x > 32767 THEN 32767 ELSE IF x < -32768 THEN -32768 ELSE x

\* to_i16_bytes(chunk)
to_i16_bytes(b) == to_ne_bytes(to_sample_i16(f32_from_ne_bytes(b)))

\* the f32 samples of a byte buffer, as chunks_exact(4) yields them
SamplesF32(bytes) ==
    [i \in 1..(Len(bytes) \div 4) |->
        f32_from_ne_bytes(SubSeq(bytes, 4 * i - 3, 4 * i))]

\* the bytes of a sequence of f32 samples
EncodeF32(samples) ==
    [j \in 1..(4 * Len(samples)) |->
        f32_to_ne_bytes(samples[(j + 3) \div 4])[((j - 1) % 4) + 1]]

\* (mutant) each converted sample is written once
MonoToStereoF32_Once(data) ==
    [j \in 1..(2 * (Len(data) \div 4)) |->
        LET k == (j - 1) \div 2
        IN to_i16_bytes(SubSeq(data, 4 * k + 1, 4 * k + 4))[((j - 1) % 2) + 1]]

\* F32, input_channels == 1 && output_channels == 2: each chunk of 4 bytes
\* converted and written twice
MonoToStereoF32(data) ==
    [j \in 1..(4 * (Len(data) \div 4)) |->
        LET k == (j - 1) \div 4
        IN to_i16_bytes(SubSeq(data, 4 * k + 1, 4 * k + 4))[((j - 1) % 2) + 1]]

\* ((l + r) * 0.5).to_sample::<i16>(): the cast drops the half
MixedF32(l, r) == to_sample_i16(DivTrunc(l + r, 2))

\* F32, input_channels == 2 && output_channels == 1: one sample per chunk of
\* 8 bytes
StereoToMonoF32(data) ==
    [j \in 1..(2 * (Len(data) \div 8)) |->
        LET k == (j - 1) \div 2
            l == f32_from_ne_bytes(SubSeq(data, 8 * k + 1, 8 * k + 4))
            r == f32_from_ne_bytes(SubSeq(data, 8 * k + 5, 8 * k + 8))
        IN to_ne_bytes(MixedF32(l, r))[((j - 1) % 2) + 1]]

\* F32, else: each chunk of 4 bytes converted
SameChannelsF32(data) ==
    [j \in 1..(2 * (Len(data) \div 4)) |->
        LET k == (j - 1) \div 2
        IN to_i16_bytes(SubSeq(data, 4 * k + 1, 4 * k + 4))[((j - 1) % 2) + 1]]

\* the F32 branch, after new_data.clear()
ConvertF32(data, input_channels, output_channels) ==
    IF input_channels = 1 /\ output_channels = 2 THEN MonoToStereoF32(data)
    ELSE IF input_channels = 2 /\ output_channels = 1 THEN StereoToMonoF32(data)
    ELSE SameChannelsF32(data)

\* the body of the input callback
ConvertBuffer(format, data, input_channels, output_channels) ==
    IF format = "F32" THEN ConvertF32(data, input_channels, output_channels)
    ELSE ConvertS16(data, input_channels, output_channels)

\* 16-bit samples near the ends and the middle of the range
SampleValues ==
    UNION {{k - 32768, 32767 - k, k, -k} : k \in 0..MaxEdge}

\* f32 samples at zero and on both sides of the ends of the i16 range
SampleValuesF32 ==
    {0} \cup UNION {{-32768 - k, 32767 + k} : k \in 0..MaxEdge}

\* the device buffers of a sample format
DeviceBuffers(format, n) ==
    IF format = "F32" THEN {EncodeF32(x) : x \in [1..n -> SampleValuesF32]}
    ELSE {Encode(x) : x \in [1..n -> SampleValues]}

InitConvOf(formats) ==
    /\ channels_count = 1
    /\ batch_frames_count = 1
    /\ average_buffer_frames_count = 1
    /\ InitJitter
    /\ backend = "cpal"
    /\ direction = "record"
    /\ device_channels = 1
    /\ task_pc = "start"
    /\ task_result = "none"
    /\ thread_pc = "unspawned"
    /\ device_failed = FALSE
    /\ shutdown = "open"
    /\ data_channel = <<>>
    /\ recycle_channel = <<>>
    /\ joined = FALSE
    /\ transport = NoTransport
    /\ NoCapture
    /\ \E i \in {1, 2}, o \in {1, 2}, frames \in 1..MaxConvFrames,
          format \in formats :
         \E data \in DeviceBuffers(format, frames * i) :
            converter = [input_channels |-> i, output_channels |-> o,
                         data |-> data, new_data |-> <<>>,
                         original |-> data, passes |-> <<>>,
                         pc |-> "input", format |-> format]

\* a device whose sample format is I16
InitConv == InitConvOf({"I16"})

\* a device of either sample format
InitConvAny == InitConvOf({"I16", "F32"})

convRest == <<jitterVars, mutex, callback_pc, backend, direction, recycle_channel,
              device_channels, task_pc, task_result, thread_pc, device_failed,
              shutdown, data_channel, joined, transport, captureVars>>

\* one call of the input callback on converter.data
Convert ==
    /\ converter.pc = "input"
    /\ Len(converter.passes) < MaxPasses
    /\ converter' =
          [converter EXCEPT
              !.new_data = ConvertBuffer(converter.format, converter.data,
                                         converter.input_channels,
                                         converter.output_channels),
              !.passes = Append(@, <<converter.input_channels,
                                     converter.output_channels>>),
              !.pc = "output"]
    /\ UNCHANGED convRest

\* the converted bytes are presented to the callback again, as the capture of
\* a device with that many channels, for a target of o channels
FeedBack ==
    /\ converter.pc = "output"
    /\ Len(converter.passes) < MaxPasses
    /\ \E o \in {1, 2} :
         converter' = [converter EXCEPT !.input_channels = converter.output_channels,
                                        !.output_channels = o,
                                        !.data = converter.new_data,
                                        !.format = "I16",
                                        !.pc = "input"]
    /\ UNCHANGED convRest

NextConv == Convert \/ FeedBack

SpecConv == InitConv /\ [][NextConv]_vars

SpecConvAny == InitConvAny /\ [][NextConv]_vars

\* ----------------------------------------------------------------- helpers
Frames(seq) == Len(seq) \div channels_count

AfterReceive == last.op = "receive"
AfterPull == last.op = "pull"

\* the overflow threshold of the check that ends every iteration
OverflowLimit == 2 * average_buffer_frames_count + batch_frames_count

\* the packet of the last receive update, decoded
LastPacket == Decode(last.first, last.frames * channels_count)

AllSilence(seq) == \A i \in DOMAIN seq : seq[i] = Silence

\* ------------------------------------------------------------------ claims

\* C1: immediately after every receive update the jitter buffer is empty or
\* holds at least batch_frames frames; the receive side never leaves a partial
\* batch in it.
C1_PrimingInvariant ==
    AfterReceive =>
        \/ Len(sample_buffer) = 0
        \/ Frames(sample_buffer) >= batch_frames_count

\* a loss-free update that found a partial batch and released the re-primed
\* scratch
C1_Witness ==
    /\ AfterReceive
    /\ ~last.had_packet_loss
    /\ Len(last.sample_buffer) > 0
    /\ Frames(last.sample_buffer) < batch_frames_count
    /\ Len(sample_buffer) > 0

\* C2: with whole-frame packets the sample count of the jitter buffer is a
\* multiple of channels in every reachable state.
C2_ChannelAlignment == Len(sample_buffer) % channels_count = 0

\* a stereo buffer right after an overflow trim
C2_Witness ==
    /\ channels_count = 2
    /\ AfterReceive
    /\ last.buffer_frames_size > OverflowLimit
    /\ Len(sample_buffer) > 0

C4_SampleOrder ==
    /\ \A i, j \in DOMAIN sample_buffer :
          (i < j /\ sample_buffer[i] # Silence /\ sample_buffer[j] # Silence)
              => MaxOf(Ids(sample_buffer[i])) < MaxOf(Ids(sample_buffer[j]))
    /\ AfterPull => \A id \in AllIds(output_buffer) : id > last.rendered_high

\* C5: a receive update that finds more than 2*avg_frames + batch_frames frames
\* after appending trims to a frame count within
\* [max(avg_frames, batch_frames), 2*avg_frames + batch_frames]; after every
\* receive update the buffer holds at most 2*avg_frames + batch_frames frames.
C5_OverrunBound ==
    AfterReceive =>
        /\ Frames(sample_buffer) <= OverflowLimit
        /\ last.buffer_frames_size > OverflowLimit =>
              Frames(sample_buffer) >= Max(average_buffer_frames_count, batch_frames_count)

\* an overflow trim in a configuration with avg_frames < batch_frames
C5_Witness ==
    /\ AfterReceive
    /\ last.buffer_frames_size > OverflowLimit
    /\ average_buffer_frames_count < batch_frames_count

\* ------------------------------------------------- end-to-end scenarios
\* (checked under SpecE: channels = 2, batch_frames = 480, avg_frames = 1440)

\* sample i of a sequence that starts the stream, as decoded
Wire(i) == Raw(i)

\* sample i of a released sequence that starts the stream: the first
\* batch_frames frames carry the linear ramp f / batch_frames
Ramped(i) ==
    LET f == (i - 1) \div channels_count IN
    IF f < batch_frames_count
    THEN IF f = 0 THEN Silence ELSE {Term(i, f, batch_frames_count)}
    ELSE Wire(i)

\* the first batch_frames frames of the buffer the last receive update found
LastAnchor == Take(last.sample_buffer, batch_frames_count * channels_count)

\* C6 as stated: the buffer is empty after each of the first 2 packets, and
\* after packet 4 (1920 frames) it holds 1920 frames that start with the ramp.
C6_E1_AsStated ==
    /\ (AfterReceive /\ received \in {1, 2}) => Len(sample_buffer) = 0
    /\ (AfterReceive /\ received = 4) =>
          /\ Frames(sample_buffer) = 4 * E.packet_frames
          /\ \A i \in DOMAIN sample_buffer : sample_buffer[i] = Ramped(i)

\* C6, amended: the buffer is empty after each of the first 4 packets (1920
\* accumulated frames do not exceed avg_frames + batch_frames = 1920) and the
\* scratch holds them unscaled, in wire order; after packet 5 (2400 frames)
\* priming completes: the buffer holds 2400 frames whose first 480 frames carry
\* the ramp f/480 and whose other frames are unscaled, and the scratch is empty.
C6_E1_Priming ==
    /\ (AfterReceive /\ received <= 4) =>
          /\ Len(sample_buffer) = 0
          /\ Frames(recovery_sample_buffer) = received * E.packet_frames
          /\ \A i \in DOMAIN recovery_sample_buffer :
                recovery_sample_buffer[i] = Wire(i)
    /\ (AfterReceive /\ received = 5) =>
          /\ Frames(sample_buffer) = 5 * E.packet_frames
          /\ \A i \in DOMAIN sample_buffer : sample_buffer[i] = Ramped(i)
          /\ Len(recovery_sample_buffer) = 0

\* the fifth loss-free packet has been received and released
C6_Witness ==
    /\ AfterReceive
    /\ received = 5
    /\ Frames(sample_buffer) = 5 * E.packet_frames

\* a 480-frame packet with the loss flag has just been received with 1920
\* frames buffered
E3_Case ==
    /\ AfterReceive
    /\ last.had_packet_loss
    /\ last.frames = E.packet_frames
    /\ Frames(last.sample_buffer) = 4 * E.packet_frames

E4_Case ==
    /\ AfterReceive
    /\ last.had_packet_loss
    /\ last.frames = E.big_packet_frames
    /\ Frames(last.sample_buffer) = 2 * E.packet_frames

HealthyCase ==
    /\ AfterReceive
    /\ ~last.had_packet_loss
    /\ Frames(last.sample_buffer) >= batch_frames_count

\* C9: on the healthy path the P decoded frames are appended at the back, so
\* the frame count after appending is B + P; unless the overflow threshold is
\* exceeded the buffer is the old buffer followed by the packet, unfaded, and
\* the scratch is untouched; when it is exceeded, the frames behind the trim's
\* cross-fade are still the unmodified tail of the old buffer and the packet.
C9_HealthyAppend ==
    HealthyCase =>
        LET appended == last.sample_buffer \o LastPacket
            faded == batch_frames_count * channels_count
        IN /\ last.buffer_frames_size = Frames(last.sample_buffer) + last.frames
           /\ last.buffer_frames_size <= OverflowLimit =>
                 /\ sample_buffer = appended
                 /\ recovery_sample_buffer = last.recovery_sample_buffer
           /\ last.buffer_frames_size > OverflowLimit =>
                 Drop(sample_buffer, faded)
                     = Drop(appended, Len(appended) - Len(sample_buffer) + faded)

\* a non-empty packet appended on the healthy path, below the overflow threshold
C9_Witness ==
    /\ HealthyCase
    /\ last.frames > 0
    /\ last.buffer_frames_size <= OverflowLimit
    /\ Len(sample_buffer) = Len(last.sample_buffer) + last.frames * channels_count

CrossFaded ==
    /\ Len(LastPacket) >= batch_frames_count * channels_count
    /\ Len(last.sample_buffer) >= batch_frames_count * channels_count
    /\ Len(sample_buffer) = Len(LastPacket)
    /\ \A i \in 1..Len(sample_buffer) :
          LET f == (i - 1) \div channels_count IN
          sample_buffer[i] =
              IF f < batch_frames_count
              THEN Add(Scale(LastPacket[i], f, batch_frames_count),
                       Scale(last.sample_buffer[i], batch_frames_count - f,
                             batch_frames_count))
              ELSE LastPacket[i]

\* a loss-flagged packet received with exactly one batch buffered
LossBoundary ==
    /\ AfterReceive
    /\ last.had_packet_loss
    /\ Frames(last.sample_buffer) = batch_frames_count

\* C11 as stated: a loss-flagged packet that arrives with exactly batch_frames
\* frames buffered takes the cross-fade path, and the first batch_frames frames
\* of the buffer are then the convex combination of packet and anchor.
C11_LossBoundary_AsStated == LossBoundary => CrossFaded

\* C11, amended: with exactly batch_frames frames buffered, a loss-flagged
\* packet of more than avg_frames + batch_frames frames (and of at most
\* 2 * avg_frames + batch_frames, so that no overflow trim follows) takes the
\* cross-fade path and leaves the convex combination at the front and an empty
\* scratch; a smaller one leaves the anchor as the whole buffer and waits in
\* the scratch.
C11_LossBoundary ==
    LossBoundary =>
        IF last.frames > average_buffer_frames_count + batch_frames_count
        THEN last.frames <= OverflowLimit =>
                 CrossFaded /\ recovery_sample_buffer = <<>>
        ELSE /\ sample_buffer = last.sample_buffer
             /\ recovery_sample_buffer = LastPacket

\* a cross-fade whose second frame mixes the packet and the anchor
C11_Witness ==
    /\ LossBoundary
    /\ last.frames > average_buffer_frames_count + batch_frames_count
    /\ batch_frames_count >= 2
    /\ Cardinality(Ids(sample_buffer[channels_count + 1])) = 2

\* C19: no receive update indexes the buffer or the scratch out of range or
\* underflows a length computation, for every sequence of whole-frame packets
\* with any loss flags and sizes, interleaved with render pulls, and every
\* configuration with positive batch_frames and avg_frames.
C19_NoPanic == ~last.panic

\* an update that released the scratch into an empty buffer (fade-in) and
\* trimmed the overflow in the same iteration, with avg_frames < batch_frames
C19_Witness ==
    /\ AfterReceive
    /\ Len(last.sample_buffer) = 0
    /\ last.buffer_frames_size > OverflowLimit
    /\ average_buffer_frames_count < batch_frames_count
    /\ Frames(sample_buffer) = batch_frames_count

\* the receive loop is between its lock() and the end of the loop body
ReceiveInUpdate == receive_pc.pc \in {"loss", "drain", "recover", "trim"}

\* C20: the receive update and the render pull never access the buffer at the
\* same time, and the buffer a render pull reads is the one the last completed
\* operation left, never an intermediate state of a receive update.
C20_MutualExclusion ==
    /\ callback_pc = "pull" => (~ReceiveInUpdate /\ sample_buffer = committed)
    /\ ReceiveInUpdate => mutex = "receive"

\* the callback holds the lock while the receive loop waits for it with a
\* loss-flagged packet in hand that will truncate the buffer
C20_Witness ==
    /\ callback_pc = "pull"
    /\ receive_pc.pc = "lock"
    /\ receive_pc.had_packet_loss
    /\ Frames(sample_buffer) > batch_frames_count

\* the device thread has been launched
Spawned == thread_pc # "unspawned"

\* the async task has ended: it returned, or its future was dropped
TaskEnded == task_pc = "done"

\* C12: once the device thread has been launched, every end of the async task
\* (normal return, error return, cancellation) leaves the shutdown channel
\* signalled or closed, and the device thread then leaves its wait or its event
\* loop; PipeWire's join, which follows the signal, returns.
C12_ScopedShutdown ==
    /\ [](TaskEnded /\ Spawned => shutdown # "open")
    /\ [](task_pc = "join" => shutdown # "open")
    /\ (TaskEnded /\ Spawned) ~> (thread_pc = "exited")
    /\ (task_pc = "join") ~> TaskEnded

\* a cancelled task whose device thread has left its wait on the shutdown alone
C12_Witness ==
    /\ TaskEnded
    /\ task_result = "cancelled"
    /\ thread_pc = "exited"
    /\ ~device_failed

\* C13: on every path by which record or play completes (normal return, error
\* return, cancellation), the device thread has terminated before the task's
\* completion releases the shared buffer and the channels.
C13_JoinedBeforeRelease == (TaskEnded /\ Spawned) => thread_pc = "exited"

\* C14: if handing a captured buffer to the transport fails (new_buffer or
\* send_buffer returns an error), the capture loop ends with an error on that
\* iteration and the device thread's shutdown signal is raised.
C14_TransportFailureFatal ==
    (direction = "record" /\ transport.failed) =>
        /\ TaskEnded
        /\ task_result = "err"
        /\ shutdown # "open"

\* C15: when the packet source returns an error, the receive loop returns it
\* without a buffer update for it and without holding the jitter buffer's
\* mutex, the device thread is signalled to shut down, and the play operation
\* completes with that error.
C15_SourceFailureFatal ==
    /\ [](transport.source_failed =>
            /\ mutex # "receive"
            /\ ~transport.in_hand
            /\ task_pc \in {"join", "done"}
            /\ task_result = "err"
            /\ shutdown # "open")
    /\ transport.source_failed ~> (TaskEnded /\ task_result = "err")

\* PipeWire's play returned the source's error after joining its thread
C15_Witness ==
    /\ transport.source_failed
    /\ backend = "pipewire"
    /\ TaskEnded
    /\ joined
    /\ task_result = "err"

\* C16: if the playback device thread exits because its stream failed to open,
\* failed to start or entered an error state, the playback task eventually
\* returns.
C16_DeviceFailureEndsStream ==
    (direction = "play" /\ device_failed /\ thread_pc = "exited") ~> TaskEnded

\* C17: if the capture device thread fails, the record operation completes with
\* an error, never with success.
C17_CaptureFailureSurfaced ==
    (direction = "record" /\ device_failed /\ TaskEnded) => task_result # "ok"

\* C18: a cpal capture device whose configuration has more than 2 channels is
\* refused: record returns an error, no device thread is spawned (so no stream
\* is built and nothing enters the data channel) and no packet is handed to
\* the transport.
C18_SurroundRefused ==
    (backend = "cpal" /\ direction = "record" /\ device_channels > 2) =>
        /\ thread_pc = "unspawned"
        /\ data_channel = <<>>
        /\ ~transport.handed
        /\ task_pc \in {"start", "done"}
        /\ TaskEnded => task_result = "err"

\* record has returned its error for a 3-channel cpal device
C18_Witness ==
    /\ backend = "cpal"
    /\ direction = "record"
    /\ device_channels > 2
    /\ TaskEnded
    /\ task_result = "err"

\* ------------------------------------------------------ capture conversion

\* the last pass the converter made
LastPass == converter.passes[Len(converter.passes)]

Abs(x) == IF x < 0 THEN -x ELSE x

\* C21: a mono s16 buffer duplicated to stereo and then averaged back to mono
\* has as many samples as the original, each within one LSB of the original
\* sample, including -32768 and 32767.
C21_MonoRoundTrip ==
    (converter.pc = "output" /\ converter.passes = <<<<1, 2>>, <<2, 1>>>>)
    => /\ Len(converter.new_data) = Len(converter.original)
       /\ \A i \in 1..(Len(converter.original) \div 2) :
             Abs(Samples(converter.new_data)[i] - Samples(converter.original)[i]) <= 1

C21_Witness ==
    /\ converter.pc = "output"
    /\ converter.passes = <<<<1, 2>>, <<2, 1>>>>
    /\ Samples(converter.original)[1] = -32768
    /\ Samples(converter.new_data)[1] = -32768

\* C22: with equal input and output channel counts the s16 branch writes the
\* input bytes unchanged, same length and order, so a second application to
\* its own output changes nothing either.
C22_SameChannelsIdentity ==
    (converter.pc = "output" /\ LastPass[1] = LastPass[2])
    => converter.new_data = converter.data

C22_Witness ==
    /\ converter.pc = "output"
    /\ converter.passes = <<<<2, 2>>, <<2, 2>>>>
    /\ converter.new_data = converter.original
    /\ Samples(converter.original) = <<-32768, 32767>>

\* C23: the stereo to mono s16 mix is the mean of left and right computed in
\* 32 bits (truncated towards zero); it lies in [-32768, 32767] and between
\* min(l, r) and max(l, r).
C23_MixInRange ==
    (converter.pc = "output" /\ LastPass = <<2, 1>>)
    => \A k \in 1..(Len(converter.data) \div 4) :
          LET l == Samples(converter.data)[2 * k - 1]
              r == Samples(converter.data)[2 * k]
              mixed == Samples(converter.new_data)[k]
          IN /\ Len(converter.new_data) = 2 * (Len(converter.data) \div 4)
             /\ mixed = DivTrunc(l + r, 2)
             /\ mixed >= -32768 /\ mixed <= 32767
             /\ mixed >= (IF l < r THEN l ELSE r)
             /\ mixed <= (IF l < r THEN r ELSE l)

C23_Witness ==
    /\ converter.pc = "output"
    /\ LastPass = <<2, 1>>
    /\ Samples(converter.data) = <<32767, 32767>>
    /\ Samples(converter.new_data) = <<32767>>


\* ---------------------------------------------------------- capture bridge

\* C24: the data channel and the recycle channel are bounded queues: the
\* number of buffers in either stays below a fixed bound however slowly the
\* task drains them.  Both channels are created without a capacity, so the
\* only limit the callback meets is the one this model explores up to, and
\* the queues reach it.
C24_BoundedQueues ==
    /\ Len(data_channel) < MaxQueued
    /\ Len(recycle_channel) < MaxQueued

\* the buffers queued for the task
QueuedBuffers == {data_channel[i].buffer : i \in 1..Len(data_channel)} \ {0}

\* the buffers waiting in the recycle channel
RecycledBuffers == {recycle_channel[i] : i \in 1..Len(recycle_channel)}

\* a step of the capture callback
CallbackStep == Len(data_channel') = Len(data_channel) + 1
                /\ data_channel'[Len(data_channel')].result = "ok"

\* C25: on a capture tick the callback takes the buffer at the head of the
\* recycle channel, or a buffer that did not exist when the channel is empty;
\* a buffer enters the recycle channel only in the step that follows the
\* transport send of its bytes, from the task's hand; and no buffer is at once
\* in the recycle channel and queued for sending or in the task's hand.
C25_RecycleProtocol ==
    /\ [](/\ RecycledBuffers \cap QueuedBuffers = {}
          /\ transport.data \notin RecycledBuffers
          /\ Cardinality(RecycledBuffers) = Len(recycle_channel)
          /\ Cardinality(QueuedBuffers) =
                Cardinality({i \in 1..Len(data_channel) : data_channel[i].result = "ok"}))
    /\ [][/\ CallbackStep =>
               LET new_data == data_channel'[Len(data_channel')].buffer
               IN IF Len(recycle_channel) > 0 /\ backend # "pipewire"
                  THEN /\ new_data = Head(recycle_channel)
                       /\ recycle_channel' = Tail(recycle_channel)
                  ELSE /\ new_data \notin LiveBuffers
                       /\ recycle_channel' = recycle_channel
          /\ Len(recycle_channel') > Len(recycle_channel) =>
               /\ task_pc = "send"
               /\ task_pc' = "recv"
               /\ transport'.handed
               /\ recycle_channel' = Append(recycle_channel, transport.data)
               /\ transport.data # 0
               /\ transport'.data = 0]_vars

\* a sent buffer waits in the recycle channel while a second one is queued and
\* a third is in the task's hand
C25_Witness ==
    /\ Len(recycle_channel) = 1
    /\ Len(data_channel) = 1
    /\ Head(data_channel).result = "ok"
    /\ transport.data # 0
    /\ transport.handed


\* ------------------------------------------------------- the recovery path

\* a receive update of a loss-flagged packet has run
AfterLoss == AfterReceive /\ last.had_packet_loss

\* C28: on a loss-flagged packet a buffer of fewer than batch_frames frames is
\* cleared entirely; otherwise the buffer keeps exactly its first batch_frames
\* frames, in their order and with their values, and nothing after them.
C28_LossTruncation ==
    AfterLoss =>
        IF Frames(last.sample_buffer) < batch_frames_count
        THEN last.truncated = <<>>
        ELSE /\ Frames(last.truncated) = batch_frames_count
             /\ Len(last.truncated) = batch_frames_count * channels_count
             /\ \A i \in 1..Len(last.truncated) :
                   last.truncated[i] = last.sample_buffer[i]

\* a loss-flagged packet met a buffer of more than one batch, of two channels
C28_Witness ==
    /\ AfterLoss
    /\ channels_count = 2
    /\ Frames(last.sample_buffer) > batch_frames_count
    /\ Len(last.truncated) = batch_frames_count * channels_count


\* the buffer as the test of the recovery path finds it: what the loss block
\* left, less a remainder below one batch
Kept ==
    IF Frames(last.truncated) < batch_frames_count THEN <<>> ELSE last.truncated

\* the frames the scratch carries into the update: what the loss block left
\* of it, and the drained remainder
Carried ==
    (IF last.had_packet_loss THEN <<>> ELSE last.recovery_sample_buffer)
    \o (IF Frames(last.truncated) < batch_frames_count THEN last.truncated ELSE <<>>)

\* the scratch once the packet is added to it
Scratch == Carried \o LastPacket

\* the update took the recovery path
Disrupted == AfterReceive /\ (Len(Kept) = 0 \/ last.had_packet_loss)

ReleaseLimit == average_buffer_frames_count + batch_frames_count

StepKept ==
    IF Frames(receive_pc.truncated) < batch_frames_count THEN <<>>
    ELSE receive_pc.truncated

StepCarried ==
    (IF receive_pc.had_packet_loss THEN <<>> ELSE receive_pc.recovery_sample_buffer)
    \o (IF Frames(receive_pc.truncated) < batch_frames_count
        THEN receive_pc.truncated ELSE <<>>)

StepScratch ==
    StepCarried \o Decode(next_sample, receive_pc.frames * channels_count)

\* the recovery path has just released the scratch; the overflow check is next
Released ==
    /\ receive_pc.pc = "trim"
    /\ Len(StepKept) = 0 \/ receive_pc.had_packet_loss
    /\ Frames(StepScratch) > ReleaseLimit

\* the release met an anchor of one batch left by the loss block
CrossFadeCase ==
    /\ Released
    /\ receive_pc.had_packet_loss
    /\ Frames(StepKept) = batch_frames_count

\* what a buffer sample holds of the scratch's own samples
OfScratch(sample) == {t \in sample : t[1] \in AllIds(StepScratch)}

\* the last n samples of the buffer
Moved(n) == SubSeq(sample_buffer, Len(sample_buffer) - n + 1, Len(sample_buffer))

\* C29: when the scratch exceeds avg_frames + batch_frames frames, frame f of
\* its first batch_frames frames enters the buffer scaled by f / batch_frames
\* (frame 0 silent), the later frames unscaled, the whole scratch in order at
\* the end of the buffer, and the scratch is empty after the release.
C29_ReprimeRelease ==
    Released =>
        /\ Len(sample_buffer) >= Len(StepScratch)
        /\ recovery_sample_buffer = <<>>
        /\ \A i \in 1..Len(StepScratch) :
              LET f == (i - 1) \div channels_count
                  moved == Moved(Len(StepScratch))[i]
              IN /\ f = 0 => OfScratch(moved) = Silence
                 /\ f < batch_frames_count =>
                       OfScratch(moved) = Scale(StepScratch[i], f, batch_frames_count)
                 /\ f >= batch_frames_count => moved = StepScratch[i]

\* a scratch of carried frames and a packet has been released into an empty
\* buffer, with a ramp of two steps over two channels
C29_Witness ==
    /\ Released
    /\ ~receive_pc.had_packet_loss
    /\ Len(StepCarried) > 0
    /\ receive_pc.frames > 0
    /\ batch_frames_count = 2
    /\ channels_count = 2
    /\ Len(sample_buffer) = Len(StepScratch)
    /\ recovery_sample_buffer = <<>>

\* C30: when a loss-flagged update releases the scratch while an anchor of
\* batch_frames frames is in the buffer, frame f < batch_frames of the buffer
\* is the faded-in scratch frame plus anchor[f] * (1 - f / batch_frames), the
\* later frames are the scratch's, and the buffer holds exactly as many frames
\* as the scratch: the anchor is gone.
C30_CrossFadeConsumesAnchor ==
    CrossFadeCase =>
        /\ Len(sample_buffer) = Len(StepScratch)
        /\ recovery_sample_buffer = <<>>
        /\ \A i \in 1..Len(StepScratch) :
              LET f == (i - 1) \div channels_count IN
              IF f < batch_frames_count
              THEN sample_buffer[i] =
                      Add(Scale(StepScratch[i], f, batch_frames_count),
                          Scale(StepKept[i], batch_frames_count - f,
                                batch_frames_count))
              ELSE sample_buffer[i] = StepScratch[i]

\* a cross-fade over a ramp of two steps has replaced the anchor
C30_Witness ==
    /\ CrossFadeCase
    /\ batch_frames_count = 2
    /\ Len(sample_buffer) = Len(StepScratch)
    /\ Cardinality(Ids(sample_buffer[channels_count + 1])) = 2
    /\ Ids(sample_buffer[channels_count + 1]) \cap AllIds(StepKept) # {}


\* ------------------------------------------------------ fade-in on release

\* the update came after a disruption: the buffer was below one batch on
\* entry, or the packet or an earlier one, not released since, was loss-flagged
AfterDisruption ==
    /\ AfterReceive
    /\ \/ Frames(last.sample_buffer) < batch_frames_count
       \/ last.had_packet_loss
       \/ last.loss_preceded

\* the material the update put into the buffer: the scratch on the recovery
\* path, the packet on the healthy path
NewMaterial == IF Disrupted THEN Scratch ELSE LastPacket

\* samples of the packet are in the buffer
PacketVisible == AllIds(sample_buffer) \cap AllIds(LastPacket) # {}

\* what a buffer sample holds of the new material's samples
OfNew(sample) == {t \in sample : t[1] \in AllIds(NewMaterial)}

\* C26: whenever a receive update makes packet samples visible after a
\* disruption, the first batch_frames frames of the material it put into the
\* buffer carry the fade-in ramp: frame f is scaled by f / batch_frames.
\* (Updates that end in an overflow trim are left aside.)
C26_FadeInBeforeRelease ==
    (/\ AfterDisruption
     /\ PacketVisible
     /\ last.buffer_frames_size <= OverflowLimit) =>
        /\ Len(sample_buffer) >= Len(NewMaterial)
        /\ \A i \in 1..Len(NewMaterial) :
              LET f == (i - 1) \div channels_count
                  new == sample_buffer[Len(sample_buffer) - Len(NewMaterial) + i]
              IN f < batch_frames_count =>
                    OfNew(new) = Scale(NewMaterial[i], f, batch_frames_count)


\* ------------------------------------------------------------ overrun trim

\* the overflow check is about to run on a buffer over the limit
TrimDue == receive_pc.pc = "trim" /\ Frames(sample_buffer) > OverflowLimit

\* C31: when the frame count B' after the append exceeds 2 * avg_frames +
\* batch_frames, the trim removes exactly B' - max(avg_frames, batch_frames)
\* frames from the front; what remains is the newest material F in its order,
\* unmodified after the first batch_frames frames, and frame f < batch_frames
\* is F[f] * (f / batch_frames) + A[f] * (1 - f / batch_frames), A being the
\* front of the buffer before the trim.
C31_TrimKeepsNewest ==
    [][TrimDue =>
         LET target == Max(average_buffer_frames_count, batch_frames_count)
             removed == Frames(sample_buffer) - target
             F == Drop(sample_buffer, removed * channels_count)
             A == Take(sample_buffer, batch_frames_count * channels_count)
         IN /\ Len(sample_buffer') = target * channels_count
            /\ Len(sample_buffer) - Len(sample_buffer') = removed * channels_count
            /\ \A i \in 1..Len(sample_buffer') :
                  LET f == (i - 1) \div channels_count IN
                  IF f < batch_frames_count
                  THEN sample_buffer'[i] =
                          Add(Scale(F[i], f, batch_frames_count),
                              Scale(A[i], batch_frames_count - f, batch_frames_count))
                  ELSE sample_buffer'[i] = F[i]]_vars

\* a trim has left more than one batch, of two channels: cross-faded frames
\* followed by unmodified ones
C31_Witness ==
    /\ AfterReceive
    /\ last.buffer_frames_size > OverflowLimit
    /\ channels_count = 2
    /\ average_buffer_frames_count > batch_frames_count
    /\ Frames(sample_buffer) = average_buffer_frames_count
    /\ Cardinality(Ids(sample_buffer[1])) = 1
    /\ Cardinality(Ids(sample_buffer[Len(sample_buffer)])) = 1


\* ----------------------------------------------------------------- priming

\* a non-empty loss-free packet met an empty buffer
PrimingUpdate ==
    /\ AfterReceive
    /\ ~last.had_packet_loss
    /\ last.frames > 0
    /\ last.sample_buffer = <<>>

\* C32: from an empty buffer, every non-empty loss-free packet adds its frames
\* to the accumulated scratch, and the update that takes the accumulated
\* frames past avg_frames + batch_frames leaves at least batch_frames frames
\* in the buffer; a render pull on the empty buffer changes neither the buffer
\* nor the scratch.  The scratch grows with every packet, so priming completes
\* after finitely many updates.
C32_PrimingCompletes ==
    /\ PrimingUpdate =>
          IF Frames(Scratch) > ReleaseLimit
          THEN Frames(sample_buffer) >= batch_frames_count
          ELSE /\ sample_buffer = <<>>
               /\ Frames(recovery_sample_buffer) =
                     Frames(last.recovery_sample_buffer) + last.frames
    /\ (AfterPull /\ last.sample_buffer = <<>>) =>
          /\ sample_buffer = <<>>
          /\ recovery_sample_buffer = last.recovery_sample_buffer
          /\ AllSilence(output_buffer)

\* the third packet of an accumulation, none of them released before, took
\* the scratch past the threshold and filled the buffer
C32_Witness ==
    /\ PrimingUpdate
    /\ received = 3
    /\ Frames(last.recovery_sample_buffer) > 0
    /\ Frames(last.recovery_sample_buffer) <= ReleaseLimit
    /\ rendered_high = 0
    /\ Frames(Scratch) > ReleaseLimit
    /\ Frames(sample_buffer) >= batch_frames_count


\* ----------------------------------------------------------- the callback

\* C33: every playback callback, on every backend, asks the jitter buffer
\* for exactly batch_frames frames and obtains batch_frames * channels
\* samples.
C33_WholeBatchPulls ==
    (direction = "play" /\ output_buffer # <<>>) =>
        Len(output_buffer) = batch_frames_count * channels_count


\* ------------------------------------------------------ converter's output

\* the device samples of the buffer the last callback was given
DeviceSamples ==
    IF converter.format = "F32" THEN SamplesF32(converter.data)
    ELSE Samples(converter.data)

\* the s16 sample a device sample is sent as
Sent(x) == IF converter.format = "F32" THEN to_sample_i16(x) ELSE x

SnapshotIds == AllIds(Take(last.recovery_sample_buffer, last.snapshot_before))

\* C35: the snapshot an overflow trim leaves in the scratch is never played
\* back: no later receive update puts samples of it into the buffer (the
\* samples of it the buffer already held, in the trim's cross-fade, aside).
C35_SnapshotNeverPlayed ==
    (AfterReceive /\ last.snapshot_before > 0) =>
        (AllIds(sample_buffer) \cap SnapshotIds) \subseteq AllIds(last.sample_buffer)


\* the update ended in an overflow trim
Trimmed == AfterReceive /\ last.buffer_frames_size > OverflowLimit

C39_ScratchBounded ==
    AfterReceive => Frames(recovery_sample_buffer) <= ReleaseLimit

\* an update left the scratch exactly full: one more frame would release it
C39_Witness ==
    /\ AfterReceive
    /\ last.recovery_sample_buffer # <<>>
    /\ last.frames > 0
    /\ Frames(recovery_sample_buffer) = ReleaseLimit
    /\ Len(recovery_sample_buffer) = ReleaseLimit * channels_count


\* ------------------------------------------------------ the receive's lock
\* the statements of the loop body the receive loop has yet to run before its
\* guard drops
StepsToUnlock ==
    CASE receive_pc.pc = "loss" -> 4
      [] receive_pc.pc = "drain" -> 3
      [] receive_pc.pc = "recover" -> 2
      [] receive_pc.pc = "trim" -> 1
      [] OTHER -> 0

IsCaptured(item) == item.result = "ok"

\* the captured buffers the loop has yet to send: the one in its hand, then
\* those queued in the data channel
Pending ==
    LET queued == SelectSeq(data_channel, IsCaptured) IN
    (IF transport.data = 0 THEN <<>> ELSE <<transport.data>>)
    \o [i \in 1..Len(queued) |-> queued[i].buffer]

\* C38: the i-th packet given to the transport holds the bytes of the i-th
\* capture tick and nothing else: the packets follow the callback's order,
\* none is sent twice or skipped, and none carries bytes of the packet its
\* buffer held before.  While the loop runs, the ticks not yet sent are the
\* buffers in its hand and in the data channel, in order.
C38_CaptureOrder ==
    /\ \A i \in 1..Len(packets) : packets[i] = <<i>>
    /\ task_pc \in {"recv", "send"} =>
          /\ Len(packets) + Len(Pending) = capture_ticks
          /\ \A i \in 1..Len(Pending) :
                buffer_bytes[Pending[i]] = <<Len(packets) + i>>

\* two ticks, two packets and a single buffer: it carried the first packet,
\* came back over the recycle channel, and carried the second
C38_Witness ==
    /\ backend = "cpal"
    /\ thread_pc = "running"
    /\ capture_ticks = 2
    /\ Len(packets) = 2
    /\ packets[2] = <<2>>
    /\ recycle_channel = <<1>>
    /\ LiveBuffers = {0, 1}


\* ------------------------------------------------- the end of the PipeWire loops
\* the task leaves its loop: its ShutdownSender is dropped, by drop() at the
\* end of the function or by the return that `?` takes
LoopLeft ==
    /\ task_pc \in {"recv", "lock", "update", "send"}
    /\ task_pc' \in {"join", "done"}

\* the function has returned: record or play has a result
Returned == task_pc = "done" /\ task_result \in {"ok", "err"}

\* C40: in the PipeWire backend, whenever record or play has returned, and
\* whenever it is at or past handle.join(), Shutdown has been sent; it is sent
\* by the step that leaves the loop and by no other, so it is sent once and
\* the join finds a thread that has been told to quit.
C40_ShutdownBeforeJoin ==
    /\ [](backend = "pipewire" =>
             ((task_pc = "join" \/ joined \/ Returned) => shutdown = "signalled"))
    /\ [][backend = "pipewire" =>
             /\ (LoopLeft \/ shutdown' # shutdown) =>
                    (LoopLeft /\ shutdown = "open" /\ shutdown' = "signalled")
             /\ joined' /\ ~joined => shutdown = "signalled"]_vars

\* PipeWire's play has returned the error of its packet source after it sent
\* Shutdown and joined the device thread
C40_Witness ==
    /\ backend = "pipewire"
    /\ direction = "play"
    /\ Returned
    /\ task_result = "err"
    /\ joined
    /\ shutdown = "signalled"
    /\ thread_pc = "exited"


=============================================================================
